---- MODULE Spec2Model ----
(***************************************************************************)
(* Secure upload pipeline of app/file_handler.py: signature sniffing,      *)
(* size-bounded validation, UUID naming, path containment, ancestor        *)
(* symlink sweep and the final write, run by concurrent callers over a     *)
(* small POSIX-like filesystem with directories, regular files and         *)
(* symbolic links.                                                         *)
(***************************************************************************)
EXTENDS Integers, Sequences, FiniteSets, TLC

VARIABLES fs, root, logLevel, call, issued, probe, http, db, thread, reply, deleted

\* the outbound HTTP client's one call
httpVars == <<http>>

\* the in-memory item store and the requests served from it
itemVars == <<db, thread, reply, deleted>>

vars == <<fs, root, logLevel, call, issued, probe, httpVars, itemVars>>

(***************************************************************************)
(* Bounds of the exploration.                                              *)
(***************************************************************************)
\* number of concurrent callers of secure_save_file
NCalls == 2
\* longest explicit byte prefix of a probed buffer
MaxHead == 5
\* number of callers that run against the directory swap
NRacers == 1
\* largest max_retries passed to fetch_with_retries
MaxTries == 4
\* number of worker threads serving /items requests
NThreads == 2
\* largest id create_item hands out
MaxId == 2

(***************************************************************************)
(* Byte buffers.  A buffer is its explicit leading bytes `head' followed   *)
(* by a run of `pad' zero bytes (the shape b"..." + b"\x00" * n the        *)
(* boundary tests build), so that buffers of MAX_FILE_SIZE bytes are       *)
(* values a model checker can hold.                                       *)
(***************************************************************************)
MAX_FILE_SIZE == 5000000

Buf(h, n) == [head |-> h, pad |-> n]

BufLen(b) == Len(b.head) + b.pad

ByteAt(b, i) == IF i <= Len(b.head) THEN b.head[i] ELSE 0

Min(a, b) == IF a <= b THEN a ELSE b

Max(a, b) == IF a >= b THEN a ELSE b

\* bytes.startswith(m)
StartsWith(b, m) ==
    /\ BufLen(b) >= Len(m)
    /\ \A i \in 1..Len(m) : ByteAt(b, i) = m[i]

\* m in bytes : some window of b equals m.  Windows lying wholly in the
\* zero run are all alike, so the scan stops Len(m) bytes into the run.
Contains(b, m) ==
    \E s \in 0..(Min(BufLen(b), Len(b.head) + Len(m)) - Len(m)) :
        \A j \in 1..Len(m) : ByteAt(b, s + j) = m[j]

\* bytes equality
BufEq(a, b) ==
    /\ BufLen(a) = BufLen(b)
    /\ \A i \in 1..Max(Len(a.head), Len(b.head)) : ByteAt(a, i) = ByteAt(b, i)

(***************************************************************************)
(* sniff_mimetype                                                          *)
(***************************************************************************)
PNG_MAGIC == <<137, 80, 78, 71, 13, 10, 26, 10>>

JpegMagicTwoBytes == <<255, 216>>

JPEG_MAGIC == <<255, 216, 255>>

JPEG_SOI == <<255, 216>>

JPEG_EOI == <<255, 217>>

PNG_TYPE == <<"image/png", ".png">>

JPEG_TYPE == <<"image/jpeg", ".jpg">>

\* the dict, in insertion order
MAGIC_BYTES ==
    << [magic |-> PNG_MAGIC, type |-> PNG_TYPE],
       [magic |-> JPEG_MAGIC, type |-> JPEG_TYPE] >>

\* sniff_mimetype's None
NoMatch == <<>>

\* for magic, (mimetype, ext) in MAGIC_BYTES.items(): first prefix that matches
RECURSIVE TableScan(_, _)
TableScan(data, i) ==
    IF i > Len(MAGIC_BYTES) THEN NoMatch
    ELSE IF StartsWith(data, MAGIC_BYTES[i].magic) THEN MAGIC_BYTES[i].type
    ELSE TableScan(data, i + 1)

SniffSkipsEoiRule(data) ==
    IF BufLen(data) = 0 THEN NoMatch ELSE TableScan(data, 1)

SniffEoiRuleUnregistered(data) ==
    IF BufLen(data) = 0 THEN NoMatch
    ELSE IF TableScan(data, 1) # NoMatch THEN TableScan(data, 1)
    ELSE IF StartsWith(data, JPEG_SOI) /\ Contains(data, JPEG_EOI)
         THEN <<"image/jpeg", ".jpeg">>
    ELSE NoMatch

sniff_mimetype(data) ==
    IF BufLen(data) = 0 THEN NoMatch
    ELSE IF TableScan(data, 1) # NoMatch THEN TableScan(data, 1)
    ELSE IF StartsWith(data, JPEG_SOI) /\ Contains(data, JPEG_EOI) THEN JPEG_TYPE
    ELSE NoMatch

(***************************************************************************)
(* validate_file_upload.  The outcome records the error raised ("" when    *)
(* none), the pair returned, and the checks that ran, in order.            *)
(***************************************************************************)
Verdict(e, t, c) == [err |-> e, type |-> t, checks |-> c]

ValidateEmptyFirst(data, max_size) ==
    IF BufLen(data) = 0 THEN
        Verdict("file_empty", NoMatch, <<"empty">>)
    ELSE IF BufLen(data) > max_size THEN
        Verdict("file_too_large", NoMatch, <<"empty", "size">>)
    ELSE IF sniff_mimetype(data) = NoMatch THEN
        Verdict("unsupported_file_type", NoMatch, <<"empty", "size", "sniff">>)
    ELSE Verdict("", sniff_mimetype(data), <<"empty", "size", "sniff">>)

ValidateSniffsEmpty(data, max_size) ==
    IF BufLen(data) > max_size THEN
        Verdict("file_too_large", NoMatch, <<"size">>)
    ELSE IF sniff_mimetype(data) = NoMatch THEN
        Verdict(IF BufLen(data) = 0 THEN "file_empty" ELSE "unsupported_file_type",
                NoMatch, <<"size", "sniff">>)
    ELSE Verdict("", sniff_mimetype(data), <<"size", "sniff">>)

ValidateAcceptsUnknown(data, max_size) ==
    IF BufLen(data) > max_size THEN
        Verdict("file_too_large", NoMatch, <<"size">>)
    ELSE IF BufLen(data) = 0 THEN
        Verdict("file_empty", NoMatch, <<"size", "empty">>)
    ELSE IF sniff_mimetype(data) = NoMatch THEN
        Verdict("", <<"application/octet-stream", ".bin">>, <<"size", "empty", "sniff">>)
    ELSE Verdict("", sniff_mimetype(data), <<"size", "empty", "sniff">>)

validate_file_upload(data, max_size) ==
    IF BufLen(data) > max_size THEN
        Verdict("file_too_large", NoMatch, <<"size">>)
    ELSE IF BufLen(data) = 0 THEN
        Verdict("file_empty", NoMatch, <<"size", "empty">>)
    ELSE IF sniff_mimetype(data) = NoMatch THEN
        Verdict("unsupported_file_type", NoMatch, <<"size", "empty", "sniff">>)
    ELSE Verdict("", sniff_mimetype(data), <<"size", "empty", "sniff">>)

(***************************************************************************)
(* Paths.  A name is a sequence of characters, a path the sequence of its  *)
(* names from "/"; str(path) is the character sequence the containment     *)
(* check compares.                                                         *)
(***************************************************************************)
RECURSIVE Str(_)
Str(path) ==
    IF path = <<>> THEN <<"/">>
    ELSE IF Len(path) = 1 THEN <<"/">> \o path[1]
    ELSE Str(SubSeq(path, 1, Len(path) - 1)) \o <<"/">> \o path[Len(path)]

\* str.startswith(prefix)
StrStartsWith(s, prefix) ==
    /\ Len(s) >= Len(prefix)
    /\ SubSeq(s, 1, Len(prefix)) = prefix

\* Path.parent
Parent(path) == SubSeq(path, 1, Len(path) - 1)

\* Path.parents : every proper ancestor, nearest first, "/" last
Parents(path) == [i \in 1..Len(path) |-> SubSeq(path, 1, Len(path) - i)]

(***************************************************************************)
(* The filesystem: the set of directories, the symbolic links with their   *)
(* (absolute) targets, and the regular files with their content.           *)
(***************************************************************************)
IsDir(f, p) == p \in f.dirs

IsLink(f, p) == p \in DOMAIN f.links

IsFile(f, p) == p \in DOMAIN f.files

Exists(f, p) == IsDir(f, p) \/ IsLink(f, p) \/ IsFile(f, p)

Resolved(p, e) == [path |-> p, err |-> e]

\* os.path.realpath: walk `rest' below the canonical `path', following links.
\* `seen' holds the links under resolution (a link met again is a loop).
\* strict: a missing or non-directory component is an error; non-strict: the
\* remaining names are appended as they are.
RECURSIVE JoinRealPath(_, _, _, _, _)
\* a directory the process has no search permission on: lstat of any entry
\* below it fails with EACCES
nLocked == <<"k">>

Unsearchable == {<<nLocked>>}

JoinRealPath(f, path, rest, strict, seen) ==
    IF rest = <<>> THEN Resolved(path, "")
    ELSE
        LET newpath == Append(path, Head(rest))
            more == Tail(rest)
        IN  IF path \in Unsearchable THEN
                IF strict THEN Resolved(newpath, "EACCES")
                ELSE JoinRealPath(f, newpath, more, strict, seen)
            ELSE IF ~IsDir(f, path) /\ strict THEN
                Resolved(newpath, IF Exists(f, path) THEN "ENOTDIR" ELSE "ENOENT")
            ELSE IF ~IsDir(f, path) THEN
                JoinRealPath(f, newpath, more, strict, seen)
            ELSE IF IsLink(f, newpath) THEN
                IF newpath \in seen THEN Resolved(newpath \o more, "ELOOP")
                ELSE
                    LET inner == JoinRealPath(f, <<>>, f.links[newpath], strict,
                                              seen \cup {newpath})
                    IN  IF inner.err # "" THEN Resolved(inner.path \o more, inner.err)
                        ELSE JoinRealPath(f, inner.path, more, strict, seen)
            ELSE IF ~Exists(f, newpath) /\ strict THEN Resolved(newpath, "ENOENT")
            ELSE JoinRealPath(f, newpath, more, strict, seen)

ResolveLexical(f, path, strict) == Resolved(path, "")

ResolveNeverStrict(f, path, strict) == JoinRealPath(f, <<>>, path, FALSE, {})

\* Path.resolve(strict)
Resolve(f, path, strict) == JoinRealPath(f, <<>>, path, strict, {})

\* Path.is_symlink : lstat follows the links above the last name only; a path
\* that cannot be reached is no symlink
IsSymlink(f, path) ==
    IF path = <<>> THEN FALSE
    ELSE LET up == JoinRealPath(f, <<>>, Parent(path), TRUE, {})
         IN  up.err = "" /\ IsDir(f, up.path)
             /\ IsLink(f, Append(up.path, path[Len(path)]))

\* open(path, "wb") then write: the kernel follows every link, the last name
\* included; the file is created in an existing directory or an existing
\* regular file is truncated, and the whole buffer is written
WriteTarget(f, path) ==
    LET r == JoinRealPath(f, <<>>, path, FALSE, {})
    IN  IF r.err # "" THEN Resolved(r.path, r.err)
        ELSE IF IsDir(f, r.path) THEN Resolved(r.path, "EISDIR")
        ELSE IF ~IsDir(f, Parent(r.path)) THEN
            Resolved(r.path, IF Exists(f, Parent(r.path)) THEN "ENOTDIR" ELSE "ENOENT")
        ELSE Resolved(r.path, "")

Stored(path, data) == [p \in {path} |-> data]

WriteSignatureOnly(f, path, data) ==
    [f EXCEPT !.files =
        Stored(path, Buf(SubSeq(data.head, 1, Min(Len(data.head), Len(PNG_MAGIC))), 0))
            @@ f.files]

\* Path.write_bytes on a target WriteTarget accepts
WriteBytes(f, path, data) ==
    [f EXCEPT !.files = Stored(path, data) @@ f.files]

(***************************************************************************)
(* Logging.  A call is handled only when its level is enabled for the      *)
(* module's logger; a handled call builds a LogRecord, and                 *)
(* Logger.makeRecord raises KeyError when `extra' names an attribute the   *)
(* record already has ("filename" is one).                                 *)
(***************************************************************************)
LogLevels == {"INFO", "WARNING", "CRITICAL"}

LevelNo(l) ==
    CASE l = "INFO" -> 20
      [] l = "WARNING" -> 30
      [] l = "ERROR" -> 40
      [] l = "CRITICAL" -> 50

LogRecordAttributes == {"filename", "name", "msg", "args", "module", "lineno"}

\* logger.<level>(msg, extra = {k: ... for k in keys}) raises KeyError
LogRaises(level, keys) ==
    /\ LevelNo(level) >= LevelNo(logLevel)
    /\ keys \cap LogRecordAttributes # {}

(***************************************************************************)
(* The explored world: directory names, the initial tree, the roots a      *)
(* deployment may configure and the buffers callers upload.                *)
(***************************************************************************)
nData == <<"d">>

nUpload == <<"u", "p">>

\* a sibling of the upload directory whose name starts with its name
nUploadOther == <<"u", "p", "-", "o">>

nTmp == <<"t">>

UploadDir == <<nData, nUpload>>

\* a symlink to the upload directory
RootLink == << <<"l">> >>

\* the upload directory reached through a symlinked ancestor
AliasLink == << <<"a">> >>

RootViaAlias == <<AliasLink[1], nUpload>>

\* a symlink inside the upload directory that leads out of it
InnerLink == <<nData, nUpload, <<"s">> >>

MissingDir == << <<"n">> >>

PlainFile == <<nData, <<"f">> >>

\* a root configured below a regular file
BelowFile == <<nData, <<"f">>, nUpload>>

\* a root inside a directory that cannot be searched
LockedRoot == <<nLocked, nUpload>>

InitialFs ==
    [dirs  |-> {<<>>, <<nData>>, UploadDir, <<nData, nUploadOther>>, <<nTmp>>,
                <<nLocked>>, LockedRoot},
     links |-> (RootLink :> UploadDir) @@ (AliasLink :> <<nData>>)
                  @@ (InnerLink :> <<nTmp>>),
     files |-> (PlainFile :> Buf(<<104, 105>>, 0))]

Roots ==
    {UploadDir, RootLink, RootViaAlias, InnerLink, MissingDir, PlainFile, BelowFile,
     LockedRoot}

PngWithExtra == Buf(PNG_MAGIC \o <<69, 88>>, 0)

JpegImage == Buf(<<255, 216, 255, 224, 0, 255, 217>>, 0)

PngAtLimit == Buf(PNG_MAGIC, MAX_FILE_SIZE - Len(PNG_MAGIC))

PngOverLimit == Buf(PNG_MAGIC, MAX_FILE_SIZE - Len(PNG_MAGIC) + 1)

EmptyBuffer == Buf(<<>>, 0)

PlainText == Buf(<<110, 111, 116>>, 0)

SaveBuffers ==
    {PngWithExtra, JpegImage, PngAtLimit, PngOverLimit, EmptyBuffer, PlainText}

Procs == 1..NCalls

(***************************************************************************)
(* uuid.uuid4 and the filename.  A UUID is universally unique: the draw    *)
(* differs from every identifier issued before and from every identifier   *)
(* that names an entry on disk.                                            *)
(***************************************************************************)
Uuids == 1..NCalls

Digits == <<"1", "2", "3", "4", "5", "6", "7", "8", "9">>

\* str(uuid)
UuidText(u) == <<"#", Digits[u]>>

\* the characters of an extension
ExtText(ext) ==
    CASE ext = ".png" -> <<".", "p", "n", "g">>
      [] ext = ".jpg" -> <<".", "j", "p", "g">>
      [] OTHER -> <<".", "b", "i", "n">>

Entries(f) == f.dirs \cup DOMAIN f.links \cup DOMAIN f.files

NamesEntry(f, u) ==
    \E e \in Entries(f) : e # <<>> /\ StrStartsWith(e[Len(e)], UuidText(u))

\* the values uuid.uuid4() may return
Uuid4(f) == {u \in Uuids : u \notin issued /\ ~NamesEntry(f, u)}

(***************************************************************************)
(* secure_save_file.  A call holds its locals in a record; `result' is the *)
(* way it ended: the path returned, the FileValidationError raised (by its *)
(* leading tag) or another exception that escaped.                         *)
(***************************************************************************)
NoResult == [kind |-> "none", err |-> "", path |-> <<>>]

Returned(p) == [kind |-> "path", err |-> "", path |-> p]

ValidationError(e) == [kind |-> "error", err |-> e, path |-> <<>>]

Escaped(x) == [kind |-> "raise", err |-> x, path |-> <<>>]

IdleCall ==
    [pc |-> "idle", data |-> EmptyBuffer, type |-> NoMatch, root_resolved |-> <<>>,
     filename |-> <<>>, file_path_resolved |-> <<>>, result |-> NoResult]

Finish(c, r) == [c EXCEPT !.pc = "done", !.result = r]

\* Step 3: filename = f"{uuid.uuid4()}{ext}"
GenerateName(c, u) == UuidText(u) \o ExtText(c.type[2])

\* Step 4's test: str(file_path_resolved).startswith(str(root_resolved))
Contained(resolved, root_resolved) ==
    StrStartsWith(Str(resolved), Str(root_resolved))

SymlinkAboveNearestOnly(f, resolved) == IsSymlink(f, Parent(resolved))

\* Step 5's loop: some parent of the resolved path is a symlink
SymlinkAbove(f, resolved) ==
    \E i \in 1..Len(resolved) : IsSymlink(f, Parents(resolved)[i])

ReturnsUnresolvedPath(c) == Append(root, c.filename)

\* return file_path_resolved
ReturnValue(c) == c.file_path_resolved

\* the subclass of OSError raised for an errno
OSErrorName(errno) ==
    IF errno = "EACCES" THEN "PermissionError" ELSE "NotADirectoryError"

BeginResolvesFirst(p) ==
    /\ call[p].pc = "idle"
    /\ probe.fn = "none"
    /\ \E data \in SaveBuffers :
        LET v == validate_file_upload(data, MAX_FILE_SIZE)
            r == Resolve(fs, root, TRUE)
            c == [call[p] EXCEPT !.data = data, !.type = v.type]
        IN  call' = [call EXCEPT ![p] =
                IF r.err \in {"ENOENT", "ELOOP"} THEN
                    Finish(c, ValidationError("upload_dir_not_found"))
                ELSE IF r.err # "" THEN Finish(c, Escaped(OSErrorName(r.err)))
                ELSE IF v.err # "" THEN Finish(c, ValidationError(v.err))
                ELSE [c EXCEPT !.pc = "name", !.root_resolved = r.path]]
    /\ UNCHANGED <<fs, root, logLevel, issued, probe, httpVars, itemVars>>

\* Steps 1-2: validate, then resolve the upload directory strictly
Begin(p) ==
    /\ call[p].pc = "idle"
    /\ probe.fn = "none"
    /\ \E data \in SaveBuffers :
        LET v == validate_file_upload(data, MAX_FILE_SIZE)
            r == Resolve(fs, root, TRUE)
            c == [call[p] EXCEPT !.data = data, !.type = v.type]
        IN  call' = [call EXCEPT ![p] =
                IF v.err # "" THEN Finish(c, ValidationError(v.err))
                ELSE IF r.err \in {"ENOENT", "ELOOP"} THEN
                    Finish(c, ValidationError("upload_dir_not_found"))
                ELSE IF r.err # "" THEN Finish(c, Escaped(OSErrorName(r.err)))
                ELSE [c EXCEPT !.pc = "name", !.root_resolved = r.path]]
    /\ UNCHANGED <<fs, root, logLevel, issued, probe, httpVars, itemVars>>

\* Steps 3-4: draw the name, resolve the candidate, test containment
NameFrom(p, uuids) ==
    /\ call[p].pc = "name"
    /\ \E u \in uuids :
        LET filename == GenerateName(call[p], u)
            r == Resolve(fs, Append(call[p].root_resolved, filename), FALSE)
            c == [call[p] EXCEPT !.filename = filename, !.file_path_resolved = r.path]
        IN  /\ call' = [call EXCEPT ![p] =
                    IF r.err # "" THEN
                        IF LogRaises("WARNING", {"error", "filename"})
                        THEN Finish(c, Escaped("KeyError"))
                        ELSE Finish(c, ValidationError("invalid_path"))
                    ELSE IF ~Contained(r.path, call[p].root_resolved) THEN
                        IF LogRaises("WARNING", {"attempted_path", "upload_dir"})
                        THEN Finish(c, Escaped("KeyError"))
                        ELSE Finish(c, ValidationError("path_traversal_detected"))
                    ELSE [c EXCEPT !.pc = "sweep"]]
            /\ issued' = issued \cup {u}
    /\ UNCHANGED <<fs, root, logLevel, probe, httpVars, itemVars>>

Name(p) == NameFrom(p, Uuid4(fs))

\* Steps 3-4 when the directory already holds an entry under the name drawn:
\* the code draws the name without looking at the directory
NameOnDisk(p) == NameFrom(p, Uuids \ issued)

SweepAfterWriting(p) ==
    /\ call[p].pc = "sweep"
    /\ LET c == call[p]
           t == WriteTarget(fs, c.file_path_resolved)
       IN  /\ fs' = IF t.err = "" THEN WriteBytes(fs, t.path, c.data) ELSE fs
           /\ call' = [call EXCEPT ![p] =
                  IF SymlinkAbove(fs, c.file_path_resolved) THEN
                      Finish(c, ValidationError("symlink_in_path"))
                  ELSE [c EXCEPT !.pc = "write"]]
    /\ UNCHANGED <<root, logLevel, issued, probe, httpVars, itemVars>>

\* Step 5: the ancestor symlink sweep
Sweep(p) ==
    /\ call[p].pc = "sweep"
    /\ call' = [call EXCEPT ![p] =
            IF SymlinkAbove(fs, call[p].file_path_resolved) THEN
                IF LogRaises("WARNING", {"symlink_path"})
                THEN Finish(call[p], Escaped("KeyError"))
                ELSE Finish(call[p], ValidationError("symlink_in_path"))
            ELSE [call[p] EXCEPT !.pc = "write"]]
    /\ UNCHANGED <<fs, root, logLevel, issued, probe, httpVars, itemVars>>

\* Step 6: write the buffer, log, return the resolved path
Write(p) ==
    /\ call[p].pc = "write"
    /\ LET c == call[p]
           t == WriteTarget(fs, c.file_path_resolved)
       IN  IF t.err = "" THEN
               /\ fs' = WriteBytes(fs, t.path, c.data)
               /\ call' = [call EXCEPT ![p] =
                      IF LogRaises("INFO", {"filename", "size", "mimetype", "path"})
                      THEN Finish(c, Escaped("KeyError"))
                      ELSE Finish(c, Returned(ReturnValue(c)))]
           ELSE
               /\ fs' = fs
               /\ call' = [call EXCEPT ![p] =
                      IF LogRaises("ERROR", {"error", "filename"})
                      THEN Finish(c, Escaped("KeyError"))
                      ELSE Finish(c, ValidationError("file_write_failed"))]
    /\ UNCHANGED <<root, logLevel, issued, probe, httpVars, itemVars>>

(***************************************************************************)
(* fetch_with_retries of app/http_client.py.  One call is followed through *)
(* its loop; the server and the network answer each request as they like.  *)
(* `requests' and `sleeps' are the calls the function has made to          *)
(* httpx.Client.request and to time.sleep, in order.  Times are in         *)
(* milliseconds.                                                           *)
(***************************************************************************)
MAX_RETRIES == 3

\* 0.5 s
RETRY_BACKOFF == 500

\* the max_retries a caller passes: negative, zero, and up to the bound
RetryChoices == (-1..MaxTries) \cup {MAX_RETRIES}

\* the backoff_factor a caller passes; delays are durations
BackoffChoices == {0, RETRY_BACKOFF, 2 * RETRY_BACKOFF}

\* what one request can come to
Response(status) == [kind |-> "response", status |-> status]

HTTPStatusError(status) == [kind |-> "HTTPStatusError", status |-> status]

TimeoutException == [kind |-> "TimeoutException", status |-> 0]

RequestError == [kind |-> "RequestError", status |-> 0]

\* statuses response.raise_for_status() accepts, and statuses it raises for
SuccessCodes == {200, 201}

ErrorCodes == {304, 400, 404, 499, 500, 503}

Outcomes ==
    {Response(c) : c \in SuccessCodes} \cup {HTTPStatusError(c) : c \in ErrorCodes}
        \cup {TimeoutException, RequestError}

NoException == [kind |-> "None", status |-> 0]

\* how the call ended
Pending ==
    [kind |-> "none", msg |-> "", n |-> 0, response |-> 0, cause |-> NoException]

\* return response, the answer to request number k
Return(k) ==
    [kind |-> "return", msg |-> "", n |-> 0, response |-> k, cause |-> NoException]

\* raise HttpClientError(msg) from cause; n is the number the message carries
\* ("HTTP {n}", "Failed to fetch {url} after {n} attempts")
HttpClientError(msg, n, cause) ==
    [kind |-> "HttpClientError", msg |-> msg, n |-> n, response |-> 0, cause |-> cause]

IdleHttp ==
    [pc |-> "idle", max_retries |-> 0, backoff_factor |-> 0, attempt |-> 0,
     requests |-> <<>>, sleeps |-> <<>>, last_exception |-> NoException,
     result |-> Pending]

FinishFetch(h, r) == [h EXCEPT !.pc = "done", !.result = r]

InRangeInclusive(attempt, max_retries) == attempt <= max_retries

InRangeAtLeastOnce(attempt, max_retries) == attempt = 0 \/ attempt < max_retries

\* for attempt in range(max_retries): attempt is a value of the range
InRange(attempt, max_retries) == 0 <= attempt /\ attempt < max_retries

RetriedUnlessAbove400(e) ==
    ~(e.kind = "HTTPStatusError" /\ 400 < e.status /\ e.status < 500)

\* the except clauses: every caught exception is retried except a status
\* error with 400 <= status < 500
Retried(e) ==
    ~(e.kind = "HTTPStatusError" /\ 400 <= e.status /\ e.status < 500)

SleepsAfterEvery(attempt, max_retries) == TRUE

\* if attempt < max_retries - 1
SleepsAfter(attempt, max_retries) == attempt < max_retries - 1

RECURSIVE Pow2(_)
Pow2(n) == IF n <= 0 THEN 1 ELSE 2 * Pow2(n - 1)

WaitTimeDoubling(backoff_factor, attempt) == backoff_factor * Pow2(attempt)

\* wait_time = backoff_factor * (attempt + 1)
wait_time(backoff_factor, attempt) == backoff_factor * (attempt + 1)

\* the loop moves to its next value, or is over and the call raises
NextAttempt(h) ==
    IF InRange(h.attempt + 1, h.max_retries) THEN
        [h EXCEPT !.pc = "request", !.attempt = h.attempt + 1]
    ELSE
        FinishFetch([h EXCEPT !.attempt = h.attempt + 1],
                    HttpClientError("Failed to fetch", h.max_retries, h.last_exception))

\* the end of the loop body after a retried failure
AfterFailure(h) ==
    IF SleepsAfter(h.attempt, h.max_retries) THEN [h EXCEPT !.pc = "sleep"]
    ELSE NextAttempt(h)

OnResponseKeepsTrying(h) == AfterFailure(h)

\* raise_for_status() passed: return response
OnResponse(h) == FinishFetch(h, Return(Len(h.requests)))

\* fetch_with_retries(url, max_retries = n, backoff_factor = b) is entered
Fetch ==
    /\ http.pc = "idle"
    /\ \E n \in RetryChoices, b \in BackoffChoices :
        LET h == [http EXCEPT !.max_retries = n, !.backoff_factor = b]
        IN  http' = IF InRange(0, n) THEN [h EXCEPT !.pc = "request"]
                    ELSE FinishFetch(h, HttpClientError("Failed to fetch", n, NoException))
    /\ UNCHANGED <<fs, root, logLevel, call, issued, probe, itemVars>>

\* one pass through the try block: the request and what came of it
Request ==
    /\ http.pc = "request"
    /\ \E o \in Outcomes :
        LET h == [http EXCEPT !.requests = Append(@, o)]
        IN  http' =
                IF o.kind = "response" THEN OnResponse(h)
                ELSE IF ~Retried(o) THEN
                    FinishFetch(h, HttpClientError("HTTP", o.status, o))
                ELSE AfterFailure([h EXCEPT !.last_exception = o])
    /\ UNCHANGED <<fs, root, logLevel, call, issued, probe, itemVars>>

\* time.sleep(wait_time)
Sleep ==
    /\ http.pc = "sleep"
    /\ http' = NextAttempt([http EXCEPT !.sleeps =
                                Append(@, wait_time(http.backoff_factor, http.attempt))])
    /\ UNCHANGED <<fs, root, logLevel, call, issued, probe, itemVars>>

(***************************************************************************)
(* The item store of app/main.py: the module-level _DB and the five        *)
(* /items endpoints.  The endpoints are plain functions, which the         *)
(* framework runs on worker threads, so requests overlap: create_item      *)
(* reads next_id, appends, and increments in separate steps, between which *)
(* another thread may run.  The lookups run without a switch.              *)
(***************************************************************************)
Threads == 1..NThreads

\* item names a client sends
Names == {"a", "b"}

\* an id no test ever creates
AbsentId == 999

\* the ids a client asks for
ItemIds == (0..MaxId) \cup {AbsentId}

\* _DB = {"items": [], "next_id": 1}
EmptyDb == [items |-> <<>>, next_id |-> 1]

NoItem == [id |-> 0, name |-> ""]

IdleThread == [pc |-> "idle", item |-> NoItem]

\* the response a request ends with: the status, the error code of an
\* ApiError ("" when none), the endpoint and the id it was asked for
Reply(op, id, status, code) == [op |-> op, id |-> id, status |-> status, code |-> code]

NoReply == Reply("", 0, 0, "")

\* raise ApiError(code="not_found", message="item not found", status=404)
NotFound(op, id) == Reply(op, id, 404, "not_found")

\* for i, item in enumerate(_DB["items"]): if item["id"] == item_id
\* the position of the first item with the id, 0 when the loop falls through
RECURSIVE FirstFrom(_, _, _)
FirstFrom(items, item_id, i) ==
    IF i > Len(items) THEN 0
    ELSE IF items[i].id = item_id THEN i
    ELSE FirstFrom(items, item_id, i + 1)

First(items, item_id) == FirstFrom(items, item_id, 1)

\* _DB["items"].pop(i)
Pop(items, i) == SubSeq(items, 1, i - 1) \o SubSeq(items, i + 1, Len(items))

CreateReadCountsItems(t) ==
    /\ thread[t].pc = "idle"
    /\ db.next_id <= MaxId
    /\ \E name \in Names :
        thread' = [thread EXCEPT ![t] =
                      [pc |-> "append", item |-> [id |-> Len(db.items) + 1, name |-> name]]]
    /\ UNCHANGED <<fs, root, logLevel, call, issued, probe, httpVars, db, reply, deleted>>

\* create_item, first part: item = {"id": _DB["next_id"], ...}
CreateRead(t) ==
    /\ thread[t].pc = "idle"
    /\ db.next_id <= MaxId
    /\ \E name \in Names :
        thread' = [thread EXCEPT ![t] =
                      [pc |-> "append", item |-> [id |-> db.next_id, name |-> name]]]
    /\ UNCHANGED <<fs, root, logLevel, call, issued, probe, httpVars, db, reply, deleted>>

\* create_item, second part: _DB["items"].append(item)
CreateAppend(t) ==
    /\ thread[t].pc = "append"
    /\ db' = [db EXCEPT !.items = Append(@, thread[t].item)]
    /\ thread' = [thread EXCEPT ![t].pc = "increment"]
    /\ UNCHANGED <<fs, root, logLevel, call, issued, probe, httpVars, reply, deleted>>

\* create_item, last part: _DB["next_id"] += 1; return item
CreateIncrement(t) ==
    /\ thread[t].pc = "increment"
    /\ db' = [db EXCEPT !.next_id = @ + 1]
    /\ reply' = Reply("create", thread[t].item.id, 201, "")
    /\ thread' = [thread EXCEPT ![t] = IdleThread]
    /\ UNCHANGED <<fs, root, logLevel, call, issued, probe, httpVars, deleted>>

\* list_items
ListItems(t) ==
    /\ thread[t].pc = "idle"
    /\ reply' = Reply("list", Len(db.items), 200, "")
    /\ UNCHANGED <<fs, root, logLevel, call, issued, probe, httpVars, db, thread, deleted>>

\* get_item(item_id)
GetItem(t) ==
    /\ thread[t].pc = "idle"
    /\ \E item_id \in ItemIds :
        reply' = IF First(db.items, item_id) # 0 THEN Reply("get", item_id, 200, "")
                 ELSE NotFound("get", item_id)
    /\ UNCHANGED <<fs, root, logLevel, call, issued, probe, httpVars, db, thread, deleted>>

\* update_item(item_id, item_data): the fields sent replace the item's
UpdateItem(t) ==
    /\ thread[t].pc = "idle"
    /\ \E item_id \in ItemIds, name \in Names :
        LET i == First(db.items, item_id)
        IN  IF i # 0 THEN
                /\ db' = [db EXCEPT !.items[i].name = name]
                /\ reply' = Reply("update", item_id, 200, "")
            ELSE
                /\ db' = db
                /\ reply' = NotFound("update", item_id)
    /\ UNCHANGED <<fs, root, logLevel, call, issued, probe, httpVars, thread, deleted>>

\* delete_item(item_id): the first item with the id is popped
DeleteItem(t) ==
    /\ thread[t].pc = "idle"
    /\ \E item_id \in ItemIds :
        LET i == First(db.items, item_id)
        IN  IF i # 0 THEN
                /\ db' = [db EXCEPT !.items = Pop(db.items, i)]
                /\ reply' = Reply("delete", item_id, 204, "")
                /\ deleted' = deleted \cup {item_id}
            ELSE
                /\ db' = db
                /\ reply' = NotFound("delete", item_id)
                /\ deleted' = deleted
    /\ UNCHANGED <<fs, root, logLevel, call, issued, probe, httpVars, thread>>

(***************************************************************************)
(* Direct calls of the two pure functions, each on one buffer and one      *)
(* limit drawn when the run starts.                                        *)
(***************************************************************************)
ByteAlphabet == {0, 216, 217, 255}

RECURSIVE SeqsUpTo(_, _)
SeqsUpTo(S, n) ==
    IF n = 0 THEN {<<>>}
    ELSE LET shorter == SeqsUpTo(S, n - 1)
         IN  shorter \cup {Append(s, x) : s \in shorter, x \in S}

\* the PNG signature whole, cut short, damaged, and followed by JPEG markers
PngHeads ==
    {PNG_MAGIC, SubSeq(PNG_MAGIC, 1, Len(PNG_MAGIC) - 1),
     [PNG_MAGIC EXCEPT ![Len(PNG_MAGIC)] = 0], PNG_MAGIC \o JPEG_SOI \o JPEG_EOI}

ProbeHeads == SeqsUpTo(ByteAlphabet, MaxHead) \cup PngHeads

ProbePads == {0, MAX_FILE_SIZE - Len(PNG_MAGIC), MAX_FILE_SIZE - Len(PNG_MAGIC) + 1}

ProbeBuffers == {Buf(h, n) : h \in ProbeHeads, n \in ProbePads}

ProbeLimits == {-1, 0, 1, 2, 3, Len(PNG_MAGIC), MAX_FILE_SIZE}

NoProbe ==
    [fn |-> "none", data |-> EmptyBuffer, max_size |-> 0, done |-> FALSE,
     out |-> Verdict("", NoMatch, <<>>)]

\* validate_file_upload(data, max_size) called directly
ProbeValidate ==
    /\ probe.fn = "validate"
    /\ ~probe.done
    /\ probe' = [probe EXCEPT !.done = TRUE,
                              !.out = validate_file_upload(probe.data, probe.max_size)]
    /\ UNCHANGED <<fs, root, logLevel, call, issued, httpVars, itemVars>>

\* sniff_mimetype(data) called directly
ProbeSniff ==
    /\ probe.fn = "sniff"
    /\ ~probe.done
    /\ probe' = [probe EXCEPT !.done = TRUE,
                              !.out = Verdict("", sniff_mimetype(probe.data), <<"sniff">>)]
    /\ UNCHANGED <<fs, root, logLevel, call, issued, httpVars, itemVars>>

\* no fetch under way
HttpAtRest == http = IdleHttp

\* the item store as the module is imported, no request under way
ItemsAtRest ==
    /\ db = EmptyDb
    /\ thread = [t \in Threads |-> IdleThread]
    /\ reply = NoReply
    /\ deleted = {}

\* the upload pipeline before any call
UploadsAtRest ==
    /\ fs = InitialFs
    /\ root = UploadDir
    /\ logLevel = "WARNING"
    /\ call = [p \in Procs |-> IdleCall]
    /\ issued = {}
    /\ probe = NoProbe

InitStore ==
    /\ fs = InitialFs
    /\ root \in Roots
    /\ logLevel \in LogLevels
    /\ call = [p \in Procs |-> IdleCall]
    /\ issued = {}
    /\ probe = NoProbe
    /\ HttpAtRest
    /\ ItemsAtRest

InitProbe ==
    /\ fs = InitialFs
    /\ root = UploadDir
    /\ logLevel = "WARNING"
    /\ call = [p \in Procs |-> IdleCall]
    /\ issued = {}
    /\ \E fn \in {"validate", "sniff"}, b \in ProbeBuffers, m \in ProbeLimits :
         /\ fn = "sniff" => m = MAX_FILE_SIZE
         /\ probe = [NoProbe EXCEPT !.fn = fn, !.data = b, !.max_size = m]
    /\ HttpAtRest
    /\ ItemsAtRest

Init == InitStore \/ InitProbe

Next ==
    \/ \E p \in Procs : Begin(p)
    \/ \E p \in Procs : Name(p)
    \/ \E p \in Procs : Sweep(p)
    \/ \E p \in Procs : Write(p)
    \/ ProbeValidate
    \/ ProbeSniff

Spec == Init /\ [][Next]_vars

(***************************************************************************)
(* The symlink attack Step 5 is written against: between two steps of a    *)
(* call another process of the host moves the upload directory away and    *)
(* puts a symlink in its place.                                            *)
(***************************************************************************)
\* where the planted link leads: out of the tree, to the sibling whose name
\* extends the upload directory's, or back to itself
SwapTargets == {<<nTmp>>, <<nData, nUploadOther>>, UploadDir}

Below(path, dir) ==
    Len(path) > Len(dir) /\ SubSeq(path, 1, Len(dir)) = dir

\* rename(dir, elsewhere) followed by symlink(target, dir)
Replaced(f, dir, target) ==
    [dirs  |-> {d \in f.dirs : d # dir /\ ~Below(d, dir)},
     links |-> (dir :> target)
                 @@ [l \in {k \in DOMAIN f.links : ~Below(k, dir)} |-> f.links[l]],
     files |-> [q \in {k \in DOMAIN f.files : ~Below(k, dir)} |-> f.files[q]]]

\* the directory replaced and where its symlink leads: the upload directory
\* itself, or the directory above it
Swaps ==
    {[dir |-> UploadDir, target |-> t] : t \in SwapTargets}
        \cup {[dir |-> <<nData>>, target |-> <<nTmp>>]}

Swap ==
    /\ UploadDir \in fs.dirs
    /\ probe.fn = "none"
    /\ \E s \in Swaps : fs' = Replaced(fs, s.dir, s.target)
    /\ UNCHANGED <<root, logLevel, call, issued, probe, httpVars, itemVars>>

\* the callers that run while the directory is swapped
Racers == 1..NRacers

NextRace ==
    \/ \E p \in Racers : Begin(p)
    \/ \E p \in Racers : Name(p)
    \/ \E p \in Racers : Sweep(p)
    \/ \E p \in Racers : Write(p)
    \/ Swap

SpecRace == InitStore /\ [][NextRace]_vars

(***************************************************************************)
(* One call of fetch_with_retries against an arbitrary server.             *)
(***************************************************************************)
InitHttp == UploadsAtRest /\ HttpAtRest /\ ItemsAtRest

NextHttp ==
    \/ Fetch
    \/ Request
    \/ Sleep

SpecHttp == InitHttp /\ [][NextHttp]_vars

(***************************************************************************)
(* The /items endpoints served by concurrent worker threads.               *)
(***************************************************************************)
InitItems == UploadsAtRest /\ HttpAtRest /\ ItemsAtRest

NextItems ==
    \/ \E t \in Threads : CreateRead(t)
    \/ \E t \in Threads : CreateAppend(t)
    \/ \E t \in Threads : CreateIncrement(t)
    \/ \E t \in Threads : ListItems(t)
    \/ \E t \in Threads : GetItem(t)
    \/ \E t \in Threads : UpdateItem(t)
    \/ \E t \in Threads : DeleteItem(t)

SpecItems == InitItems /\ [][NextItems]_vars

(***************************************************************************)
(* secure_save_file on an upload directory that already holds a file under *)
(* the name the call generates.                                            *)
(***************************************************************************)
Planted == Append(UploadDir, UuidText(1) \o ExtText(".png"))

InitCollide ==
    /\ fs = [InitialFs EXCEPT !.files = (Planted :> PlainText) @@ @]
    /\ root \in {UploadDir, RootLink}
    /\ logLevel \in LogLevels
    /\ call = [p \in Procs |-> IdleCall]
    /\ issued = {}
    /\ probe = NoProbe
    /\ HttpAtRest
    /\ ItemsAtRest

NextCollide ==
    \/ \E p \in Procs : Begin(p)
    \/ \E p \in Procs : NameOnDisk(p)
    \/ \E p \in Procs : Sweep(p)
    \/ \E p \in Procs : Write(p)

SpecCollide == InitCollide /\ [][NextCollide]_vars

(***************************************************************************)
(* The /items endpoints served one request after the other: a request      *)
(* starts only when no other is under way.                                 *)
(***************************************************************************)
Quiet == \A t \in Threads : thread[t].pc = "idle"

NextItemsSerial ==
    \/ \E t \in Threads : Quiet /\ CreateRead(t)
    \/ \E t \in Threads : CreateAppend(t)
    \/ \E t \in Threads : CreateIncrement(t)
    \/ \E t \in Threads : Quiet /\ ListItems(t)
    \/ \E t \in Threads : Quiet /\ GetItem(t)
    \/ \E t \in Threads : Quiet /\ UpdateItem(t)
    \/ \E t \in Threads : Quiet /\ DeleteItem(t)

SpecItemsSerial == InitItems /\ [][NextItemsSerial]_vars

(***************************************************************************)
(* Vocabulary of the properties.                                           *)
(***************************************************************************)
\* the kernel's canonical form of the configured root
CanonicalRoot == JoinRealPath(fs, <<>>, root, TRUE, {})

RootIsDirectory == CanonicalRoot.err = "" /\ IsDir(fs, CanonicalRoot.path)

\* component-wise descent: r is a proper prefix of p
IsUnder(p, r) == Len(p) > Len(r) /\ SubSeq(p, 1, Len(r)) = r

Ended(p) == call[p].pc = "done"

Succeeded(p) == Ended(p) /\ call[p].result.kind = "path"

FailedWith(p, e) == Ended(p) /\ call[p].result = ValidationError(e)

\* the step in which call p ends
Ends(p) == call[p].pc # "done" /\ call'[p].pc = "done"

ValidateProbed == probe.fn = "validate" /\ probe.done

SniffProbed == probe.fn = "sniff" /\ probe.done

\* a buffer carrying one of the two signatures the claims call valid
PngSigned(b) == StartsWith(b, <<137, 80, 78, 71, 13, 10, 26, 10>>)

JpegSigned(b) == StartsWith(b, <<255, 216>>) /\ Contains(b, <<255, 217>>)

(***************************************************************************)
(* C1: every path secure_save_file returns is a direct child of the        *)
(* canonical root, component by component, never a path outside it.        *)
(***************************************************************************)
C1_ReturnedPathIsChildOfRoot ==
    \A p \in Procs :
        Succeeded(p) =>
            /\ CanonicalRoot.err = ""
            /\ IsUnder(call[p].result.path, CanonicalRoot.path)
            /\ Parent(call[p].result.path) = CanonicalRoot.path

\* a call through the symlinked ancestor has returned a path
C1_Witness == \E p \in Procs : Succeeded(p) /\ root = RootViaAlias

(***************************************************************************)
(* C2: a buffer longer than the limit is rejected with file_too_large      *)
(* whatever it holds, the size test being the only check that ran; and     *)
(* secure_save_file on a buffer over MAX_FILE_SIZE fails the same way in   *)
(* a step that leaves the filesystem as it was.                            *)
(***************************************************************************)
C2_OversizeState ==
    /\ (ValidateProbed /\ BufLen(probe.data) > probe.max_size) =>
           /\ probe.out.err = "file_too_large"
           /\ probe.out.checks = <<"size">>
    /\ \A p \in Procs :
           (Ended(p) /\ BufLen(call[p].data) > MAX_FILE_SIZE) =>
               /\ FailedWith(p, "file_too_large")
               /\ call[p].filename = <<>>

C2_OversizeStep ==
    \A p \in Procs :
        (Ends(p) /\ BufLen(call'[p].data) > MAX_FILE_SIZE) =>
            /\ call[p].pc = "idle"
            /\ fs' = fs

\* C2: oversize buffers are rejected by the size test alone, with no write
C2_OversizeRejectedFirst == []C2_OversizeState /\ [][C2_OversizeStep]_vars

\* the empty buffer was validated against a negative limit
C2_Witness ==
    /\ ValidateProbed
    /\ BufLen(probe.data) = 0
    /\ probe.max_size < 0
    /\ probe.out.err = "file_too_large"

(***************************************************************************)
(* C3: the size boundary.  A signed buffer of exactly MAX_FILE_SIZE bytes  *)
(* is stored, one byte more is rejected with file_too_large, and a signed  *)
(* buffer validates exactly when 0 < len <= max_size.                      *)
(***************************************************************************)
ValidlySigned(b) == PngSigned(b) \/ StartsWith(b, <<255, 216, 255>>) \/ JpegSigned(b)

C3_ValidatorBoundary ==
    (ValidateProbed /\ ValidlySigned(probe.data)) =>
        (probe.out.err = "" <=>
            (0 < BufLen(probe.data) /\ BufLen(probe.data) <= probe.max_size))

C3_OverLimitRejected ==
    \A p \in Procs :
        (Ended(p) /\ call[p].data = PngOverLimit) => FailedWith(p, "file_too_large")

\* C3 as stated: at the limit the call returns a path
C3_SizeBoundary ==
    /\ C3_ValidatorBoundary
    /\ C3_OverLimitRejected
    /\ \A p \in Procs :
           (Ended(p) /\ RootIsDirectory /\ call[p].data = PngAtLimit) => Succeeded(p)

\* what the code keeps of C3: the buffer at the limit is written whole, and
\* the path comes back unless the INFO record is built
C3_SizeBoundaryAsBuilt ==
    /\ C3_ValidatorBoundary
    /\ C3_OverLimitRejected
    /\ \A p \in Procs :
           (Ended(p) /\ RootIsDirectory /\ call[p].data = PngAtLimit) =>
               /\ IsFile(fs, call[p].file_path_resolved)
               /\ BufLen(fs.files[call[p].file_path_resolved]) = MAX_FILE_SIZE
               /\ IF logLevel = "INFO" THEN call[p].result = Escaped("KeyError")
                  ELSE Succeeded(p)

(***************************************************************************)
(* C4: the empty buffer under a limit >= 0 is rejected with file_empty,    *)
(* and sniff_mimetype is not among the checks that ran.                    *)
(***************************************************************************)
C4_EmptyRejectedBeforeSniff ==
    (ValidateProbed /\ BufLen(probe.data) = 0 /\ probe.max_size >= 0) =>
        /\ probe.out.err = "file_empty"
        /\ \A i \in 1..Len(probe.out.checks) : probe.out.checks[i] # "sniff"

\* the empty buffer was validated against the limit 0
C4_Witness ==
    /\ ValidateProbed
    /\ BufLen(probe.data) = 0
    /\ probe.max_size = 0
    /\ probe.out.err = "file_empty"

(***************************************************************************)
(* C5: a non-empty buffer within the limit that sniff_mimetype does not    *)
(* recognise is rejected with unsupported_file_type, by the validator and  *)
(* by secure_save_file, which ends in its first step with the filesystem   *)
(* as it was.                                                              *)
(***************************************************************************)
Unrecognised(b, max_size) ==
    /\ 0 < BufLen(b)
    /\ BufLen(b) <= max_size
    /\ sniff_mimetype(b) = NoMatch

C5_UnsupportedState ==
    /\ (ValidateProbed /\ Unrecognised(probe.data, probe.max_size)) =>
           probe.out = Verdict("unsupported_file_type", NoMatch, <<"size", "empty", "sniff">>)
    /\ \A p \in Procs :
           (Ended(p) /\ Unrecognised(call[p].data, MAX_FILE_SIZE)) =>
               /\ FailedWith(p, "unsupported_file_type")
               /\ call[p].filename = <<>>

C5_UnsupportedStep ==
    \A p \in Procs :
        (Ends(p) /\ Unrecognised(call'[p].data, MAX_FILE_SIZE)) =>
            /\ call[p].pc = "idle"
            /\ fs' = fs

\* C5: unrecognised buffers are rejected as unsupported, with no write
C5_UnsupportedRejected == []C5_UnsupportedState /\ [][C5_UnsupportedStep]_vars

\* secure_save_file has rejected the plain text
C5_Witness ==
    \E p \in Procs :
        /\ call[p].data = PlainText
        /\ FailedWith(p, "unsupported_file_type")
        /\ RootIsDirectory

(***************************************************************************)
(* C6: sniff_mimetype answers (image/png, .png) for every buffer that      *)
(* starts with the 8-byte PNG signature, (image/jpeg, .jpg) for every      *)
(* buffer that starts with FF D8 and holds FF D9 somewhere, and no match   *)
(* for the empty buffer.                                                   *)
(***************************************************************************)
C6_SniffRecognises ==
    SniffProbed =>
        /\ PngSigned(probe.data) => probe.out.type = <<"image/png", ".png">>
        /\ JpegSigned(probe.data) => probe.out.type = <<"image/jpeg", ".jpg">>
        /\ BufLen(probe.data) = 0 => probe.out.type = <<>>

\* a buffer whose end marker does not follow FF D8 FF was sniffed as JPEG
C6_Witness ==
    /\ SniffProbed
    /\ JpegSigned(probe.data)
    /\ ~StartsWith(probe.data, <<255, 216, 255>>)
    /\ probe.out.type = <<"image/jpeg", ".jpg">>

(***************************************************************************)
(* C7: a returned path names a regular file whose bytes equal the input,   *)
(* trailing bytes included; its name is the text of an issued UUID         *)
(* followed by .png for PNG input and .jpg for JPEG input; and the step    *)
(* that returns it adds that one file and changes nothing else.            *)
(***************************************************************************)
ExpectedExt(b) == IF PngSigned(b) THEN ".png" ELSE ".jpg"

C7_RoundTripState ==
    \A p \in Procs :
        Succeeded(p) =>
            LET path == call[p].result.path
            IN  /\ IsFile(fs, path)
                /\ BufEq(fs.files[path], call[p].data)
                /\ \E u \in issued :
                       path[Len(path)] = UuidText(u) \o ExtText(ExpectedExt(call[p].data))

C7_OneNewFileStep ==
    \A p \in Procs :
        (Ends(p) /\ call'[p].result.kind = "path") =>
            LET path == call'[p].result.path
            IN  /\ ~Exists(fs, path)
                /\ fs'.dirs = fs.dirs
                /\ fs'.links = fs.links
                /\ DOMAIN fs'.files = DOMAIN fs.files \cup {path}
                /\ \A q \in DOMAIN fs.files : fs'.files[q] = fs.files[q]

\* C7: byte-exact round trip, UUID naming, one new file per returned path
C7_RoundTripAndNaming == []C7_RoundTripState /\ [][C7_OneNewFileStep]_vars

\* a PNG with bytes after its signature and a JPEG were both stored
C7_Witness ==
    \E p, q \in Procs :
        /\ Succeeded(p) /\ call[p].data = PngWithExtra
        /\ Succeeded(q) /\ call[q].data = JpegImage

(***************************************************************************)
(* C8: when every caller passes the same valid buffer and the root is an   *)
(* existing directory, every call returns a path, the paths differ pair    *)
(* by pair, each holds the input, and no two calls draw the same filename. *)
(***************************************************************************)
Storable(b) == ValidlySigned(b) /\ 0 < BufLen(b) /\ BufLen(b) <= MAX_FILE_SIZE

SameValidInput ==
    /\ RootIsDirectory
    /\ \A p \in Procs : Ended(p) /\ Storable(call[p].data)
    /\ \A p, q \in Procs : BufEq(call[p].data, call[q].data)

DistinctNames ==
    \A p, q \in Procs :
        (p # q /\ call[p].filename # <<>> /\ call[q].filename # <<>>) =>
            call[p].filename # call[q].filename

\* C8 as stated: identical valid inputs all return pairwise distinct paths
C8_AllSucceedDistinct ==
    /\ DistinctNames
    /\ SameValidInput =>
           /\ \A p \in Procs :
                  /\ Succeeded(p)
                  /\ IsFile(fs, call[p].result.path)
                  /\ BufEq(fs.files[call[p].result.path], call[p].data)
           /\ \A p, q \in Procs : p # q => call[p].result.path # call[q].result.path

\* what the code keeps of C8: the names differ and every buffer is on disk,
\* and the paths come back unless the INFO record is built
C8_AllWrittenDistinctAsBuilt ==
    /\ DistinctNames
    /\ SameValidInput =>
           /\ \A p \in Procs :
                  /\ IsFile(fs, call[p].file_path_resolved)
                  /\ BufEq(fs.files[call[p].file_path_resolved], call[p].data)
                  /\ IF logLevel = "INFO" THEN call[p].result = Escaped("KeyError")
                     ELSE call[p].result = Returned(call[p].file_path_resolved)
           /\ \A p, q \in Procs :
                  p # q => call[p].file_path_resolved # call[q].file_path_resolved

(***************************************************************************)
(* C9: the root, or a directory above it, is a symlink before the call.    *)
(* As stated: the call fails with symlink_in_path and writes nothing.      *)
(* As amended: the call never fails with symlink_in_path; the root is      *)
(* canonicalised through the link and the buffer is written, whole, into   *)
(* the canonical root.                                                     *)
(***************************************************************************)
SymlinkedRoots == {RootLink, RootViaAlias, InnerLink}

C10_SymlinkRootSucceeds ==
    \A p \in Procs :
        (Ended(p) /\ root = RootLink /\ PngSigned(call[p].data)
                  /\ BufLen(call[p].data) <= MAX_FILE_SIZE) =>
            /\ Succeeded(p)
            /\ IsFile(fs, call[p].result.path)
            /\ Parent(call[p].result.path) = UploadDir

\* what the code keeps of C10: the file lands in the link's target, and the
\* path comes back unless the INFO record is built
C10_SymlinkRootAsBuilt ==
    \A p \in Procs :
        (Ended(p) /\ root = RootLink /\ PngSigned(call[p].data)
                  /\ BufLen(call[p].data) <= MAX_FILE_SIZE) =>
            /\ IsFile(fs, call[p].file_path_resolved)
            /\ Parent(call[p].file_path_resolved) = UploadDir
            /\ IF logLevel = "INFO" THEN call[p].result = Escaped("KeyError")
               ELSE call[p].result = Returned(call[p].file_path_resolved)

(***************************************************************************)
(* C11: with a root that does not exist and a buffer that validates, the   *)
(* call fails with upload_dir_not_found; it ends in its first step, before *)
(* a filename is drawn, and that step writes no file and creates no        *)
(* directory.                                                              *)
(***************************************************************************)
RootMissing == CanonicalRoot.err = "ENOENT"

C11_MissingRootState ==
    \A p \in Procs :
        (Ended(p) /\ Storable(call[p].data) /\ RootMissing) =>
            /\ FailedWith(p, "upload_dir_not_found")
            /\ call[p].filename = <<>>
            /\ ~Exists(fs, root)

C11_MissingRootStep ==
    \A p \in Procs :
        (Ends(p) /\ Storable(call'[p].data) /\ RootMissing) =>
            /\ call[p].pc = "idle"
            /\ fs'.files = fs.files
            /\ fs'.dirs = fs.dirs
            /\ fs'.links = fs.links

\* C11: a missing root is refused with upload_dir_not_found and nothing is created
C11_MissingRootRefused == []C11_MissingRootState /\ [][C11_MissingRootStep]_vars

\* a valid PNG was refused because the root is missing
C11_Witness ==
    \E p \in Procs :
        /\ root = MissingDir
        /\ call[p].data = PngWithExtra
        /\ FailedWith(p, "upload_dir_not_found")

(***************************************************************************)
(* C13: when validate_file_upload(data, MAX_FILE_SIZE) fails, the call     *)
(* fails with the validator's own error whatever the root is, a missing    *)
(* root included; it ends in its first step, which leaves the filesystem   *)
(* as it was.                                                              *)
(***************************************************************************)
ValidatorError(b) == validate_file_upload(b, MAX_FILE_SIZE).err

C13_ValidatorErrorState ==
    \A p \in Procs :
        (Ended(p) /\ ValidatorError(call[p].data) # "") =>
            /\ FailedWith(p, ValidatorError(call[p].data))
            /\ call[p].filename = <<>>
            /\ call[p].root_resolved = <<>>

C13_ValidatorErrorStep ==
    \A p \in Procs :
        (Ends(p) /\ ValidatorError(call'[p].data) # "") =>
            /\ call[p].pc = "idle"
            /\ fs' = fs

\* C13: the validator's error comes back unchanged and ahead of every root error
C13_ValidationPrecedesRoot ==
    []C13_ValidatorErrorState /\ [][C13_ValidatorErrorStep]_vars

\* under a missing root the empty buffer and the oversize buffer were each
\* refused with the validator's error
C13_Witness ==
    \E p, q \in Procs :
        /\ root = MissingDir
        /\ call[p].data = EmptyBuffer /\ FailedWith(p, "file_empty")
        /\ call[q].data = PngOverLimit /\ FailedWith(q, "file_too_large")

(***************************************************************************)
(* C15: a successful validate_file_upload returns a pair registered in     *)
(* MAGIC_BYTES: (image/png, .png) or (image/jpeg, .jpg), the media type    *)
(* being the one the table pairs with the extension, also when the buffer  *)
(* matched by the FF D8 ... FF D9 rule alone.                              *)
(***************************************************************************)
RegisteredPairs == {MAGIC_BYTES[i].type : i \in 1..Len(MAGIC_BYTES)}

C15_ValidatedPairRegistered ==
    (ValidateProbed /\ probe.out.err = "") =>
        /\ probe.out.type \in RegisteredPairs
        /\ probe.out.type[2] \in {".png", ".jpg"}
        /\ probe.out.type[2] = ".png" => probe.out.type[1] = "image/png"
        /\ probe.out.type[2] = ".jpg" => probe.out.type[1] = "image/jpeg"

\* a buffer that only the FF D8 ... FF D9 rule matches has validated
C15_Witness ==
    /\ ValidateProbed
    /\ probe.out.err = ""
    /\ StartsWith(probe.data, <<255, 216>>)
    /\ ~StartsWith(probe.data, <<255, 216, 255>>)
    /\ probe.out.type = <<"image/jpeg", ".jpg">>

(***************************************************************************)
(* C12: a call that fails with file_too_large, file_empty,                 *)
(* unsupported_file_type, upload_dir_not_found, invalid_path,              *)
(* path_traversal_detected or symlink_in_path has changed nothing on disk: *)
(* it ends before the write step, and every step a call takes before the   *)
(* write step leaves files, directories and links as they were.            *)
(***************************************************************************)
ErrorsBeforeWrite ==
    {"file_too_large", "file_empty", "unsupported_file_type", "upload_dir_not_found",
     "invalid_path", "path_traversal_detected", "symlink_in_path"}

\* call p takes a step
Steps(p) == call'[p] # call[p]

C12_FailureStep ==
    \A p \in Procs :
        /\ (Ends(p) /\ call'[p].result.kind = "error"
                    /\ call'[p].result.err \in ErrorsBeforeWrite) =>
               /\ call[p].pc # "write"
               /\ fs' = fs
        /\ (Steps(p) /\ call[p].pc # "write") => fs' = fs

\* C12: failures other than file_write_failed leave the filesystem unchanged
C12_FailureLeavesNoTrace == [][C12_FailureStep]_vars

\* the directory was swapped under a call that had resolved its candidate
\* path, and the sweep refused it
C12_Witness ==
    \E p \in Procs :
        /\ FailedWith(p, "symlink_in_path")
        /\ call[p].file_path_resolved = Append(UploadDir, call[p].filename)
        /\ IsLink(fs, UploadDir)

(***************************************************************************)
(* C14: every call ends with a stored-file path or with one of the eight   *)
(* typed errors; no condition of the filesystem (missing root, root that   *)
(* is no directory, resolution error, write error) ends a call with any    *)
(* other exception.                                                        *)
(***************************************************************************)
TypedErrors == ErrorsBeforeWrite \cup {"file_write_failed"}

\* C14 as stated: a path or one of the eight typed errors, nothing else
C14_OnlyTypedOutcomes ==
    \A p \in Procs :
        Ended(p) =>
            \/ call[p].result.kind = "path"
            \/ call[p].result.kind = "error" /\ call[p].result.err \in TypedErrors

\* what the code does: the outcomes besides a path and a typed error are the
\* NotADirectoryError of a root below a regular file and the KeyError of a
\* log record that carries `filename', the latter after a completed write
\* when INFO is enabled and in place of file_write_failed when ERROR is
C14_OutcomesAsBuilt ==
    \A p \in Procs :
        Ended(p) =>
            \/ call[p].result.kind = "path"
            \/ call[p].result.kind = "error" /\ call[p].result.err \in TypedErrors
            \/ call[p].result = Escaped("NotADirectoryError") /\ root = BelowFile
            \/ call[p].result = Escaped("PermissionError") /\ root = LockedRoot
            \/ /\ call[p].result = Escaped("KeyError")
               /\ logLevel # "CRITICAL"
               /\ call[p].filename # <<>>
               /\ logLevel = "WARNING" => ~IsFile(fs, call[p].file_path_resolved)

(***************************************************************************)
(* Vocabulary of the HTTP client's properties.                             *)
(***************************************************************************)
FetchDone == http.pc = "done"

\* the number of requests issued so far
Sent == Len(http.requests)

\* the failures the claims call retryable: timeout, request error, 5xx
RetryableFailure(o) ==
    \/ o.kind \in {"TimeoutException", "RequestError"}
    \/ o.kind = "HTTPStatusError" /\ 500 <= o.status /\ o.status <= 599

ClientError(o) == o.kind = "HTTPStatusError" /\ 400 <= o.status /\ o.status <= 499

(***************************************************************************)
(* C16: with max_retries = n >= 1 no execution issues more than n          *)
(* requests, and a call all of whose attempts fail with a timeout, a       *)
(* request error or a 5xx status issues exactly n requests and raises      *)
(* HttpClientError "Failed to fetch ... after n attempts" from the last    *)
(* failure.                                                                *)
(***************************************************************************)
C16_ExactlyMaxRetriesRequests ==
    /\ http.max_retries >= 1 => Sent <= http.max_retries
    /\ (/\ FetchDone
        /\ http.max_retries >= 1
        /\ \A i \in 1..Sent : RetryableFailure(http.requests[i])) =>
           /\ Sent = http.max_retries
           /\ http.result =
                  HttpClientError("Failed to fetch", http.max_retries, http.requests[Sent])

\* the default three attempts failed, each in another way
C16_Witness ==
    /\ FetchDone
    /\ http.max_retries = MAX_RETRIES
    /\ http.requests = <<TimeoutException, RequestError, HTTPStatusError(503)>>
    /\ http.result.msg = "Failed to fetch"

(***************************************************************************)
(* C17: a 4xx status ends the call at the attempt where it occurs: it is   *)
(* the last request issued, the call has raised HttpClientError "HTTP      *)
(* <status>" from it, no sleep followed it, and a call that has ended      *)
(* issues nothing more.                                                    *)
(***************************************************************************)
C17_ClientErrorState ==
    \A k \in 1..Sent :
        ClientError(http.requests[k]) =>
            /\ k = Sent
            /\ FetchDone
            /\ http.result =
                   HttpClientError("HTTP", http.requests[k].status, http.requests[k])
            /\ Len(http.sleeps) = k - 1

C17_EndedCallStep == FetchDone => http' = http

\* C17: 4xx is never retried
C17_ClientErrorNotRetried == []C17_ClientErrorState /\ [][C17_EndedCallStep]_vars

\* a 400 answered the second attempt and ended the call
C17_Witness ==
    /\ FetchDone
    /\ http.max_retries = MAX_RETRIES
    /\ http.requests = <<RequestError, HTTPStatusError(400)>>
    /\ http.result.n = 400

(***************************************************************************)
(* C18: while the attempts so far failed retryably and fewer than          *)
(* max_retries were made, the call goes on; the first attempt that         *)
(* succeeds is the last request issued, and the call returns its response. *)
(***************************************************************************)
C18_ReturnsFirstSuccess ==
    /\ \A k \in 1..Sent :
           http.requests[k].kind = "response" =>
               /\ k = Sent
               /\ k <= http.max_retries
               /\ FetchDone
               /\ http.result = Return(k)
    /\ (/\ Sent >= 1
        /\ Sent < http.max_retries
        /\ \A i \in 1..Sent : RetryableFailure(http.requests[i])) => ~FetchDone

\* the last allowed attempt succeeded after a timeout and a 500
C18_Witness ==
    /\ http.max_retries = MAX_RETRIES
    /\ http.requests = <<TimeoutException, HTTPStatusError(500), Response(200)>>
    /\ http.result = Return(MAX_RETRIES)

LookupStep == thread' = thread /\ reply'.op \in {"get", "update", "delete"}

Answers404 == reply'.status = 404 /\ reply'.code = "not_found"

C20_AbsentIdStep ==
    (LookupStep /\ First(db.items, reply'.id) = 0) =>
        /\ Answers404
        /\ db' = db

C20_DeletedIdStep == (LookupStep /\ reply'.id \in deleted) => Answers404

\* C20 as stated
C20_NotFoundContract == [][C20_AbsentIdStep /\ C20_DeletedIdStep]_vars

\* what the code keeps of C20: the answer for an absent id, and a delete that
\* removes one item, the first that carries the id
C20_NotFoundAsBuilt ==
    [][/\ C20_AbsentIdStep
       /\ (LookupStep /\ reply'.op = "delete" /\ reply'.status = 204) =>
              /\ First(db.items, reply'.id) # 0
              /\ db'.items = Pop(db.items, First(db.items, reply'.id))
              /\ db'.next_id = db.next_id]_vars

(***************************************************************************)
(* C30: a call with max_retries <= 0 issues no request, does not sleep,    *)
(* returns no response, and ends by raising HttpClientError "Failed to     *)
(* fetch ... after max_retries attempts" with no cause.                    *)
(***************************************************************************)
C30_NoAttemptsAllowed ==
    (http.pc # "idle" /\ http.max_retries <= 0) =>
        /\ FetchDone
        /\ http.requests = <<>>
        /\ http.sleeps = <<>>
        /\ http.result.kind # "return"
        /\ http.result = HttpClientError("Failed to fetch", http.max_retries, NoException)

\* a call with max_retries = -1 has ended
C30_Witness ==
    /\ FetchDone
    /\ http.max_retries = -1
    /\ http.result.msg = "Failed to fetch"
    /\ http.result.n = -1

(***************************************************************************)
(* C27: sniff_mimetype answers (image/png, .png) exactly for the buffers   *)
(* that start with the 8-byte PNG signature, (image/jpeg, .jpg) exactly    *)
(* for those that start with FF D8 FF or start with FF D8 and hold FF D9,  *)
(* and no match for every other buffer; no buffer starts with two of the   *)
(* table's signatures.                                                     *)
(***************************************************************************)
JpegAccepted(b) == StartsWith(b, <<255, 216, 255>>) \/ JpegSigned(b)

TableMatches(b) == {i \in 1..Len(MAGIC_BYTES) : StartsWith(b, MAGIC_BYTES[i].magic)}

C27_ExactAcceptanceSet ==
    SniffProbed =>
        /\ probe.out.type = <<"image/png", ".png">> <=> PngSigned(probe.data)
        /\ probe.out.type = <<"image/jpeg", ".jpg">> <=> JpegAccepted(probe.data)
        /\ probe.out.type = <<>> <=> (~PngSigned(probe.data) /\ ~JpegAccepted(probe.data))
        /\ Cardinality(TableMatches(probe.data)) <= 1

\* FF D8 followed by a byte other than FF, with no FF D9, was sniffed: no match
C27_Witness ==
    /\ SniffProbed
    /\ BufLen(probe.data) >= 3
    /\ StartsWith(probe.data, <<255, 216>>)
    /\ ~StartsWith(probe.data, <<255, 216, 255>>)
    /\ ~Contains(probe.data, <<255, 217>>)
    /\ probe.out.type = <<>>

(***************************************************************************)
(* Vocabulary of the item store's properties.                              *)
(***************************************************************************)
\* the ids of the items in the store, in list order
StoredIds == [i \in 1..Len(db.items) |-> db.items[i].id]

DistinctIds ==
    \A i, j \in 1..Len(db.items) : i # j => db.items[i].id # db.items[j].id

(***************************************************************************)
(* C28: when requests are served one after the other, the ids in the store *)
(* are pairwise distinct; between requests next_id exceeds every id in the *)
(* store and every id deleted; each create appends an id greater than all  *)
(* of those; a deleted id never returns; and update leaves every id where  *)
(* it was.                                                                 *)
(***************************************************************************)
C28_IdState ==
    /\ DistinctIds
    /\ \A i \in 1..Len(db.items) : db.items[i].id \notin deleted
    /\ Quiet =>
           /\ \A i \in 1..Len(db.items) : db.items[i].id < db.next_id
           /\ \A d \in deleted : d < db.next_id

C28_IdStep ==
    /\ Len(db'.items) = Len(db.items) + 1 =>
           LET new == db'.items[Len(db'.items)].id
           IN  /\ SubSeq(db'.items, 1, Len(db.items)) = db.items
               /\ \A i \in 1..Len(db.items) : db.items[i].id < new
               /\ \A d \in deleted : d < new
    /\ db'.next_id >= db.next_id
    /\ (thread' = thread /\ reply'.op = "update") =>
           /\ Len(db'.items) = Len(db.items)
           /\ \A i \in 1..Len(db.items) : db'.items[i].id = db.items[i].id
           /\ db'.next_id = db.next_id

\* C28: the id invariants of a sequential run
C28_IdsUniqueIncreasingNeverReused == []C28_IdState /\ [][C28_IdStep]_vars

\* item 1 was created and deleted, item 2 created after it and then updated
C28_Witness ==
    /\ deleted = {1}
    /\ StoredIds = <<2>>
    /\ db.next_id = 3
    /\ reply = Reply("update", 2, 200, "")

(***************************************************************************)
(* C29: when create_item requests overlap, the items created carry         *)
(* distinct ids, and once the requests are over next_id has advanced by    *)
(* one for each.                                                           *)
(***************************************************************************)
\* C29 as stated
C29_ConcurrentCreatesDistinct ==
    /\ DistinctIds
    /\ (Quiet /\ deleted = {}) => db.next_id = 1 + Len(db.items)

\* what the code keeps of C29: next_id advances by one for each create, and
\* two items share an id only when their creates overlapped
C29_NextIdAsBuilt ==
    /\ (Quiet /\ deleted = {}) => db.next_id = 1 + Len(db.items)
    /\ \A i \in 1..Len(db.items) : db.items[i].id >= 1 /\ db.items[i].id <= MaxId

(***************************************************************************)
(* Vocabulary of the properties of a call whose directory is swapped.      *)
(***************************************************************************)
\* the files stored anywhere but under the directory r
FilesOutside(f, r) == {q \in DOMAIN f.files : ~IsUnder(q, r)}

\* the upload directory was replaced, after the call canonicalized it, by a
\* symlink that leads out of it
SwappedUnder(p) ==
    /\ call[p].pc \in {"name", "sweep", "write"}
    /\ call[p].root_resolved = UploadDir
    /\ IsLink(fs, UploadDir)
    /\ ~IsUnder(fs.links[UploadDir], UploadDir) /\ fs.links[UploadDir] # UploadDir

(***************************************************************************)
(* C21: the containment test of Step 4 accepts a canonical candidate path  *)
(* exactly when the components of the canonical root are a proper prefix   *)
(* of the candidate's components; a candidate under a sibling directory    *)
(* whose name starts with the root's name ends in path_traversal_detected. *)
(***************************************************************************)
\* C21 as stated, for a logger that handles no WARNING record
C21_ComponentContainment ==
    \A p \in Procs :
        /\ call[p].pc \in {"sweep", "write"} =>
               IsUnder(call[p].file_path_resolved, call[p].root_resolved)
        /\ (logLevel = "CRITICAL" /\ Ended(p) /\ call[p].filename # <<>>
                /\ Parent(call[p].file_path_resolved) = <<nData, nUploadOther>>
                /\ call[p].root_resolved = UploadDir) =>
               FailedWith(p, "path_traversal_detected")

\* what the code tests: the text of the candidate starts with the text of
\* the root
C21_PrefixContainmentAsBuilt ==
    \A p \in Procs :
        call[p].pc \in {"sweep", "write"} =>
            /\ StrStartsWith(Str(call[p].file_path_resolved), Str(call[p].root_resolved))
            /\ \/ IsUnder(call[p].file_path_resolved, call[p].root_resolved)
               \/ /\ Len(call[p].file_path_resolved) = Len(call[p].root_resolved) + 1
                  /\ Parent(call[p].file_path_resolved) = <<nData, nUploadOther>>

(***************************************************************************)
(* C22: when the upload directory is replaced by a symlink leading out of  *)
(* the root after the call has canonicalized the root and before it has    *)
(* written, the call ends in symlink_in_path and stores nothing outside    *)
(* the canonical root.                                                     *)
(***************************************************************************)
C22_SwapStep ==
    \A p \in Procs :
        (logLevel = "CRITICAL" /\ SwappedUnder(p) /\ Steps(p)) =>
            /\ FilesOutside(fs', UploadDir) = FilesOutside(fs, UploadDir)
            /\ Ends(p) => call'[p].result = ValidationError("symlink_in_path")
            /\ ~Ends(p) => SwappedUnder(p)'

\* C22 as stated, for a logger that handles no record of the call
C22_SwapAlwaysCaught == [][C22_SwapStep]_vars

\* what the code keeps of C22: a swap that precedes the sweep, of a call that
\* holds its candidate path, ends the call in symlink_in_path with nothing
\* written
C22_SwapBeforeSweepStep ==
    \A p \in Procs :
        (logLevel = "CRITICAL" /\ SwappedUnder(p) /\ call[p].pc = "sweep" /\ Steps(p)
            /\ Parent(call[p].file_path_resolved) = UploadDir) =>
            /\ fs' = fs
            /\ call'[p].result = ValidationError("symlink_in_path")

C22_SwapBeforeSweepAsBuilt == [][C22_SwapBeforeSweepStep]_vars

(***************************************************************************)
(* C26: the sweep of Step 5.  As stated it looks at the directories from   *)
(* the candidate's parent up to the canonical root and no further, so that *)
(* a symlink above the root does not end the call in symlink_in_path.  As  *)
(* built it looks at every ancestor of the candidate up to "/".            *)
(***************************************************************************)
\* the ancestors of path, "/" excluded, that are symlinks; those at or below
\* the directory r when within is set
LinkedAncestors(f, path, r, within) ==
    {i \in 1..(Len(path) - 1) :
        /\ IsSymlink(f, SubSeq(path, 1, i))
        /\ within => i >= Len(r)}

SweepStep(p) == call[p].pc = "sweep" /\ Steps(p)

\* C26 as stated: refused exactly when a directory between the candidate
\* and the root is a symlink
C26_SweepStopsAtRootStep ==
    \A p \in Procs :
        SweepStep(p) =>
            (call'[p].result = ValidationError("symlink_in_path")
                <=> LinkedAncestors(fs, call[p].file_path_resolved,
                                    call[p].root_resolved, TRUE) # {})

C26_SweepStopsAtRoot == [][C26_SweepStopsAtRootStep]_vars

\* C26 amended: refused exactly when any ancestor of the candidate is a
\* symlink, those above the root included; otherwise the call goes on to write
C26_SweepStep ==
    \A p \in Procs :
        SweepStep(p) =>
            /\ fs' = fs
            /\ call'[p].result = ValidationError("symlink_in_path")
                  <=> LinkedAncestors(fs, call[p].file_path_resolved,
                                      call[p].root_resolved, FALSE) # {}
            /\ call'[p].pc = "write"
                  <=> LinkedAncestors(fs, call[p].file_path_resolved,
                                      call[p].root_resolved, FALSE) = {}

C26_SweepCoversEveryAncestor == [][C26_SweepStep]_vars

\* the directory above the root became a symlink after the candidate was
\* resolved, and the sweep refused the call
C26_Witness ==
    \E p \in Procs :
        /\ FailedWith(p, "symlink_in_path")
        /\ call[p].root_resolved = UploadDir
        /\ Parent(call[p].file_path_resolved) = UploadDir
        /\ IsLink(fs, <<nData>>)

(***************************************************************************)
(* C23: whenever the root cannot be canonicalized (it does not exist, a    *)
(* component cannot be searched, or it is reached through a broken or      *)
(* looping chain of symlinks) the call ends in upload_dir_not_found.       *)
(***************************************************************************)
BeginStep(p) == call[p].pc = "idle" /\ Steps(p)

C23_RootFailureStep ==
    \A p \in Procs :
        (BeginStep(p) /\ Storable(call'[p].data) /\ CanonicalRoot.err # "") =>
            call'[p].result = ValidationError("upload_dir_not_found")

\* C23 as stated
C23_AnyRootFailureIsNotFound == [][C23_RootFailureStep]_vars

\* what the code does: a root that is missing, or reached through a broken or
\* looping chain, ends in upload_dir_not_found; a root that cannot be
\* searched or lies below a regular file ends in the OSError itself
C23_RootFailureAsBuiltStep ==
    \A p \in Procs :
        (BeginStep(p) /\ Storable(call'[p].data) /\ CanonicalRoot.err # "") =>
            /\ CanonicalRoot.err \in {"ENOENT", "ELOOP"} =>
                   call'[p].result = ValidationError("upload_dir_not_found")
            /\ CanonicalRoot.err = "EACCES" =>
                   call'[p].result = Escaped("PermissionError")
            /\ CanonicalRoot.err = "ENOTDIR" =>
                   call'[p].result = Escaped("NotADirectoryError")

C23_RootFailureAsBuilt == [][C23_RootFailureAsBuiltStep]_vars

(***************************************************************************)
(* C25: when the write of Step 6 fails, the call ends in                   *)
(* file_write_failed, returns no path, and leaves every entry of the       *)
(* filesystem other than the file under the generated name as it was.      *)
(***************************************************************************)
\* a step of Step 6 whose open or write fails
FailedWriteStep(p) ==
    call[p].pc = "write" /\ Steps(p) /\ WriteTarget(fs, call[p].file_path_resolved).err # ""

\* the entries of f other than the file at path
Besides(f, path) ==
    [dirs  |-> f.dirs,
     links |-> f.links,
     files |-> [q \in DOMAIN f.files \ {path} |-> f.files[q]]]

C25_WriteFailureStep ==
    \A p \in Procs :
        FailedWriteStep(p) =>
            /\ call'[p].result = ValidationError("file_write_failed")
            /\ Besides(fs', call[p].file_path_resolved)
                   = Besides(fs, call[p].file_path_resolved)

\* C25 as stated
C25_WriteFailureIsTyped == [][C25_WriteFailureStep]_vars

\* what the code does: the call returns no path and changes nothing, and it
\* ends in file_write_failed only when the logger drops the ERROR record;
\* otherwise the record's `filename' raises KeyError inside the handler
C25_WriteFailureAsBuiltStep ==
    \A p \in Procs :
        FailedWriteStep(p) =>
            /\ fs' = fs
            /\ call'[p].pc = "done"
            /\ call'[p].result =
                   IF logLevel = "CRITICAL" THEN ValidationError("file_write_failed")
                   ELSE Escaped("KeyError")

C25_WriteFailureAsBuilt == [][C25_WriteFailureAsBuiltStep]_vars

(***************************************************************************)
(* C24: no call overwrites or truncates a file that was there before it;   *)
(* the write goes to a name that did not exist, also when the directory    *)
(* already holds a file under the generated name.                          *)
(***************************************************************************)
C24_FilesKeptStep ==
    \A q \in DOMAIN fs.files :
        q \in DOMAIN fs'.files /\ fs'.files[q] = fs.files[q]

\* C24 as stated
C24_NeverOverwrites == [][C24_FilesKeptStep]_vars

\* what the code does: it writes to the generated name whatever is there; a
\* file is kept only as long as no call draws its name
C24_KeptUnlessNamedStep ==
    \A q \in DOMAIN fs.files :
        \/ q \in DOMAIN fs'.files /\ fs'.files[q] = fs.files[q]
        \/ \E p \in Procs :
              /\ call[p].pc = "write" /\ Steps(p)
              /\ WriteTarget(fs, call[p].file_path_resolved) = Resolved(q, "")
              /\ fs'.files[q] = call[p].data

C24_KeptUnlessNamedAsBuilt == [][C24_KeptUnlessNamedStep]_vars

====
